---- MODULE Spec2Model ----
(***************************************************************************)
(* CyberMentor: the retrieval-augmented chatbot of backend/app/chatbot.py, *)
(* its HTTP handlers of backend/app/main.py and the ingestion side of      *)
(* backend/content_processor.py.                                           *)
(*                                                                         *)
(* Texts are TLA+ strings (Len, SubSeq and \o act on them character by     *)
(* character).  A Python value that may be None is a record                *)
(* [t |-> "str" | "NoneType", v |-> text].                                 *)
(***************************************************************************)
EXTENDS Integers, Sequences, FiniteSets, TLC

(***************************************************************************)
(* Bounds of the model.                                                    *)
(***************************************************************************)
\* requests the HTTP server holds at one time
NumReq == 2
\* turns the serving specification lets the history grow to
MaxHistory == 2
\* turns of the histories the prompt-composer specification draws
MaxTurns == 5
\* load_processed_content calls per behaviour of the loading specification
MaxLoads == 3

\* words in a text given to the annotator
MaxWords == 3
\* lines in a text given to split_into_sections
MaxLines == 4

(***************************************************************************)
(* Python values and text helpers.                                         *)
(***************************************************************************)
PyNone == [t |-> "NoneType", v |-> ""]

PyStr(s) == [t |-> "str", v |-> s]

IsStr(x) == x.t = "str"

\* an optional string in a condition: neither None nor ""
Truthy(x) == IsStr(x) /\ x.v # ""

Min(a, b) == IF a <= b THEN a ELSE b

Max(a, b) == IF a >= b THEN a ELSE b

\* s[i] as a one-character string
CharAt(s, i) == SubSeq(s, i, i)

\* s[:n]
Clip(s, n) == SubSeq(s, 1, Min(n, Len(s)))

\* s[-n:] of a list
LastN(seq, n) == SubSeq(seq, Max(1, Len(seq) - n + 1), Len(seq))

\* seq[:n] of a list
FirstN(seq, n) == SubSeq(seq, 1, Min(n, Len(seq)))

UpperChars == "ABCDEFGHIJKLMNOPQRSTUVWXYZ"

LowerChars == "abcdefghijklmnopqrstuvwxyz"

LowerChar(c) ==
    IF \E i \in 1..Len(UpperChars) : CharAt(UpperChars, i) = c
    THEN CharAt(LowerChars, CHOOSE i \in 1..Len(UpperChars) : CharAt(UpperChars, i) = c)
    ELSE c

RECURSIVE LowerFrom(_, _)
LowerFrom(s, i) == IF i > Len(s) THEN "" ELSE LowerChar(CharAt(s, i)) \o LowerFrom(s, i + 1)

\* str.lower()
Lower(s) == LowerFrom(s, 1)

\* the characters str.strip() removes
IsSpaceChar(c) == c \in {" ", "\t", "\n", "\r"}

\* not s.strip(): every character is whitespace
StripsToEmpty(s) == \A i \in 1..Len(s) : IsSpaceChar(CharAt(s, i))

\* kw in s
Contains(s, kw) == \E i \in 1..(Len(s) - Len(kw) + 1) : SubSeq(s, i, i + Len(kw) - 1) = kw

EndsWith(s, suffix) ==
    Len(s) >= Len(suffix) /\ SubSeq(s, Len(s) - Len(suffix) + 1, Len(s)) = suffix

RECURSIVE JoinFrom(_, _, _)
JoinFrom(sep, parts, i) ==
    IF i > Len(parts) THEN ""
    ELSE IF i = Len(parts) THEN parts[i]
    ELSE parts[i] \o sep \o JoinFrom(sep, parts, i + 1)

\* sep.join(parts)
Join(sep, parts) == JoinFrom(sep, parts, 1)

RECURSIVE Repeat(_, _)
Repeat(s, n) == IF n <= 0 THEN "" ELSE s \o Repeat(s, n - 1)

(***************************************************************************)
(* Embedders.  A vector is modelled by what decides how it can be used:    *)
(* the model that made it, its dimensionality and the (truncated) text it  *)
(* encodes.  The empty list [] is EmptyVec.                                *)
(***************************************************************************)
EmptyVec == [model |-> "", dim |-> 0, of |-> ""]

LocalEmbeddingModel == "all-MiniLM-L6-v2"

OpenAIEmbeddingModel == "text-embedding-ada-002"

\* dimensionality of the vectors each embedding model returns
EmbeddingDim(model) ==
    CASE model = LocalEmbeddingModel -> 384
      [] model = OpenAIEmbeddingModel -> 1536
      [] OTHER -> 0

\* outcomes of a call to an external backend
BackendOutcomes == {"ok", "fail"}

\* ContentProcessor.create_embedding: sentence-transformers, [] on any error
ProcessorCreateEmbedding(outcome, text) ==
    IF outcome = "ok"
    THEN [model |-> LocalEmbeddingModel, dim |-> EmbeddingDim(LocalEmbeddingModel),
          of |-> Clip(text, 8000)]
    ELSE EmptyVec

\* create_embedding without its try/except: a backend error escapes
CreateEmbedding_NoCatch(outcome, text) ==
    IF outcome = "ok"
    THEN [exc |-> "none",
          val |-> [model |-> OpenAIEmbeddingModel, dim |-> EmbeddingDim(OpenAIEmbeddingModel),
                   of |-> Clip(text, 8000)]]
    ELSE [exc |-> "APIError", val |-> EmptyVec]

\* CybersecurityChatbot.create_embedding: OpenAI embeddings inside try/except;
\* exc names the component an exception escapes from ("none": it returned)
CreateEmbedding(outcome, text) ==
    IF outcome = "ok"
    THEN [exc |-> "none",
          val |-> [model |-> OpenAIEmbeddingModel, dim |-> EmbeddingDim(OpenAIEmbeddingModel),
                   of |-> Clip(text, 8000)]]
    ELSE [exc |-> "none", val |-> EmptyVec]

(***************************************************************************)
(* The Chroma collection: its dimensionality (0 until the first add) and   *)
(* its points in insertion order.                                          *)
(***************************************************************************)
EmptyCollection == [dim |-> 0, points |-> << >>]

SeqToSet(seq) == {seq[i] : i \in 1..Len(seq)}

CollectionIds(coll) == {coll.points[i].id : i \in 1..Len(coll.points)}

HasDuplicates(seq) == \E i, j \in 1..Len(seq) : i < j /\ seq[i] = seq[j]

RECURSIVE SelectSeqBy(_, _)
\* the entries of a batch whose id is not in the set `known`
SelectSeqBy(batch, known) ==
    IF batch = << >> THEN << >>
    ELSE IF Head(batch).id \in known THEN SelectSeqBy(Tail(batch), known)
    ELSE << Head(batch) >> \o SelectSeqBy(Tail(batch), known)

\* collection.add(documents, embeddings, metadatas, ids) of one batch: ids
\* repeated inside the batch and vectors of another dimensionality raise; an
\* id the collection already holds is logged and skipped, its stored
\* document, vector and metadata stay as they are (add is not upsert)
ChromaAdd(coll, batch) ==
    LET ids == [i \in 1..Len(batch) |-> batch[i].id]
        dims == {batch[i].embedding.dim : i \in 1..Len(batch)}
        wanted == IF coll.dim = 0 THEN dims ELSE dims \cup {coll.dim}
    IN  IF HasDuplicates(ids) THEN [exc |-> "DuplicateIDError", coll |-> coll]
        ELSE IF Cardinality(wanted) > 1 THEN [exc |-> "InvalidDimensionException", coll |-> coll]
        ELSE [exc |-> "none",
              coll |-> [dim |-> CHOOSE d \in wanted : TRUE,
                        points |-> coll.points \o SelectSeqBy(batch, CollectionIds(coll))]]

RECURSIVE FilterPlatform(_, _)
FilterPlatform(points, platform) ==
    IF points = << >> THEN << >>
    ELSE IF Head(points).metadata.platform = platform
    THEN << Head(points) >> \o FilterPlatform(Tail(points), platform)
    ELSE FilterPlatform(Tail(points), platform)

EmptyResults == [documents |-> << << >> >>, metadatas |-> << << >> >>]

\* collection.query(query_embeddings=[q], n_results, where): where is PyNone
\* or the platform to match.  The similarity ranking is left abstract: hits
\* come in insertion order.
ChromaQuery(coll, q, n_results, where) ==
    IF coll.points = << >> THEN [exc |-> "none", val |-> EmptyResults]
    ELSE IF q.dim # coll.dim THEN [exc |-> "InvalidDimensionException", val |-> EmptyResults]
    ELSE LET cand == IF IsStr(where) THEN FilterPlatform(coll.points, where.v) ELSE coll.points
             hits == FirstN(cand, n_results)
         IN  [exc |-> "none",
              val |-> [documents |-> << [i \in 1..Len(hits) |-> hits[i].document] >>,
                       metadatas |-> << [i \in 1..Len(hits) |-> hits[i].metadata] >>]]

(***************************************************************************)
(* Content ingestion (content_processor.py).  A parsed file is the record  *)
(* process_markdown_file returns: title, file_path, sections (heading,     *)
(* content, word_count) and metadata.                                      *)
(***************************************************************************)
\* len(s.split()): the maximal runs of non-whitespace characters
WordCount(s) ==
    Cardinality({i \in 1..Len(s) :
        /\ ~IsSpaceChar(CharAt(s, i))
        /\ (i = 1 \/ IsSpaceChar(CharAt(s, i - 1)))})

TopicKeywords == <<
    [topic |-> "web_security", keywords |-> {"sql injection", "xss", "csrf", "web", "http", "cookie"}],
    [topic |-> "cryptography", keywords |-> {"encryption", "cipher", "crypto", "hash", "rsa", "aes"}],
    [topic |-> "reverse_engineering", keywords |-> {"assembly", "disassembly", "binary", "executable"}],
    [topic |-> "forensics", keywords |-> {"steganography", "file analysis", "metadata", "recovery"}],
    [topic |-> "pwn", keywords |-> {"buffer overflow", "stack", "heap", "memory", "exploit"}],
    [topic |-> "networking", keywords |-> {"tcp", "udp", "packet", "wireshark", "network"}] >>

RECURSIVE TopicsFrom(_, _)
TopicsFrom(content_lower, i) ==
    IF i > Len(TopicKeywords) THEN << >>
    ELSE (IF \E k \in TopicKeywords[i].keywords : Contains(content_lower, k)
          THEN << TopicKeywords[i].topic >> ELSE << >>) \o TopicsFrom(content_lower, i + 1)

\* ContentProcessor.extract_metadata (the code-block examples are not loaded
\* into the index and are left out)
ExtractMetadata(content) ==
    [platform |-> "picoCTF", difficulty |-> "beginner", topics |-> TopicsFrom(Lower(content), 1)]

RECURSIVE SplitFrom(_, _, _, _)
\* str.split(sep) for a one-character sep: start is where the current piece
\* begins, i the character looked at
SplitFrom(s, sep, start, i) ==
    IF i > Len(s) THEN << SubSeq(s, start, Len(s)) >>
    ELSE IF CharAt(s, i) = sep
    THEN << SubSeq(s, start, i - 1) >> \o SplitFrom(s, sep, i + 1, i + 1)
    ELSE SplitFrom(s, sep, start, i + 1)

Split(s, sep) == SplitFrom(s, sep, 1, 1)

\* the length of the run of characters of s from position i on that are in cs
RECURSIVE RunLength(_, _, _)
RunLength(s, i, cs) ==
    IF i > Len(s) \/ CharAt(s, i) \notin cs THEN 0 ELSE 1 + RunLength(s, i + 1, cs)

WhitespaceChars == {" ", "\t", "\n", "\r"}

\* the length of the run of whitespace that ends s
RECURSIVE TrailingSpace(_, _)
TrailingSpace(s, i) ==
    IF i < 1 \/ ~IsSpaceChar(CharAt(s, i)) THEN 0 ELSE 1 + TrailingSpace(s, i - 1)

\* str.strip()
Strip(s) ==
    LET lead == RunLength(s, 1, WhitespaceChars)
    IN  IF lead = Len(s) THEN ""
        ELSE SubSeq(s, lead + 1, Len(s) - TrailingSpace(s, Len(s)))

\* re.match(r'^\s*(==+)\s+(.*)', line): text is group(2)
HeadingMatch(line) ==
    LET lead == RunLength(line, 1, WhitespaceChars)
        marks == RunLength(line, lead + 1, {"="})
        gap == RunLength(line, lead + marks + 1, WhitespaceChars)
    IN  IF marks >= 2 /\ gap >= 1
        THEN [matched |-> TRUE, text |-> SubSeq(line, lead + marks + gap + 1, Len(line))]
        ELSE [matched |-> FALSE, text |-> ""]

\* the dict split_into_sections appends for current_heading and current_section
SectionEntry(current_heading, current_section) ==
    [heading |-> current_heading.v,
     content |-> Strip(current_section),
     word_count |-> WordCount(current_section)]

\* the section split_into_sections saves when a heading or the end is reached
SavedSection(current_heading, current_section) ==
    IF current_section # "" /\ Truthy(current_heading) /\ Strip(current_section) # ""
    THEN << SectionEntry(current_heading, current_section) >>
    ELSE << >>

RECURSIVE SplitLoop(_, _, _, _, _)
\* the for loop of split_into_sections from line i on, and the last section
SplitLoop(lines, i, sections, current_section, current_heading) ==
    IF i > Len(lines)
    THEN sections \o SavedSection(current_heading, current_section)
    ELSE LET heading_match == HeadingMatch(lines[i])
         IN  IF heading_match.matched
             THEN SplitLoop(lines, i + 1,
                            sections \o SavedSection(current_heading, current_section),
                            "", PyStr(Strip(heading_match.text)))
             ELSE SplitLoop(lines, i + 1, sections,
                            current_section \o lines[i] \o "\n", current_heading)

\* ContentProcessor.split_into_sections
SplitIntoSections(content) == SplitLoop(Split(content, "\n"), 1, << >>, "", PyNone)

\* one section as split_into_sections emits it
Section(heading, body) == [heading |-> heading, content |-> body, word_count |-> WordCount(body)]

\* the length of the run of characters of s from position i up to the line end
RECURSIVE UntilNewline(_, _)
UntilNewline(s, i) ==
    IF i > Len(s) \/ CharAt(s, i) = "\n" THEN 0 ELSE 1 + UntilNewline(s, i + 1)

\* r'^#\s+(.+)$' with re.MULTILINE tried at position p: a '#' at a line
\* start, whitespace (line ends included) as far as a character of the same
\* line is left for (.+), which runs to the end of that line
TitleMatchAt(content, p) ==
    LET gap == RunLength(content, p + 1, WhitespaceChars)
        gaps == {k \in 1..gap : p + 1 + k <= Len(content) /\ CharAt(content, p + 1 + k) # "\n"}
        k == CHOOSE g \in gaps : \A h \in gaps : g >= h
    IN  IF (p = 1 \/ CharAt(content, p - 1) = "\n") /\ CharAt(content, p) = "#" /\ gaps # {}
        THEN PyStr(SubSeq(content, p + 1 + k, p + k + UntilNewline(content, p + 1 + k)))
        ELSE PyNone

\* re.search: the first position where the pattern matches
RECURSIVE TitleSearch(_, _)
TitleSearch(content, p) ==
    IF p > Len(content) THEN PyNone
    ELSE IF IsStr(TitleMatchAt(content, p)) THEN TitleMatchAt(content, p)
    ELSE TitleSearch(content, p + 1)

\* Path(file_path).stem: the last path component without its last suffix
PathStem(file_path) ==
    LET parts == Split(file_path, "/")
        name == parts[Len(parts)]
        pieces == Split(name, ".")
        stem == Join(".", SubSeq(pieces, 1, Len(pieces) - 1))
    IN  IF Len(pieces) = 1 \/ stem = "" THEN name ELSE stem

\* ContentProcessor.process_markdown_file on a file with that path and text
ProcessMarkdownFile(file_path, content) ==
    LET title_match == TitleSearch(content, 1)
    IN  [title |-> IF IsStr(title_match) THEN title_match.v ELSE PathStem(file_path),
         file_path |-> file_path,
         sections |-> SplitIntoSections(content),
         metadata |-> ExtractMetadata(content)]

\* the per-file part of process_ctf_primer_directory: every section gets
\* section["embedding"] = create_embedding(section["content"]); outcomes[i] is
\* what the embedding backend does for section i
EmbedSections(content_data, outcomes) ==
    [content_data EXCEPT !.sections =
        [i \in 1..Len(content_data.sections) |->
            [heading |-> content_data.sections[i].heading,
             content |-> content_data.sections[i].content,
             word_count |-> content_data.sections[i].word_count,
             embedding |-> ProcessorCreateEmbedding(outcomes[i], content_data.sections[i].content)]]]

(***************************************************************************)
(* The loader (CybersecurityChatbot.load_processed_content).               *)
(***************************************************************************)
\* str.replace(old, new) for a one-character old
RECURSIVE ReplaceFrom(_, _, _, _)
ReplaceFrom(s, old, new, i) ==
    IF i > Len(s) THEN ""
    ELSE (IF CharAt(s, i) = old THEN new ELSE CharAt(s, i)) \o ReplaceFrom(s, old, new, i + 1)

Replace(s, old, new) == ReplaceFrom(s, old, new, 1)

\* str(i) for the section positions that occur
Digits == <<"0", "1", "2", "3", "4", "5", "6", "7", "8", "9">>

RECURSIVE IntToStr(_)
IntToStr(n) == IF n < 10 THEN Digits[n + 1] ELSE IntToStr(n \div 10) \o Digits[(n % 10) + 1]

\* f"{file_data['title'].replace(' ', '_')}_{i}"
PointId(title, i) == Replace(title, " ", "_") \o "_" \o IntToStr(i)

RECURSIVE FilePoints(_, _)
\* the inner loop over enumerate(file_data["sections"]), from 0-based position i
FilePoints(file_data, i) ==
    IF i >= Len(file_data.sections) THEN << >>
    ELSE LET section == file_data.sections[i + 1]
         IN  (IF section.embedding # EmptyVec
              THEN << [id |-> PointId(file_data.title, i),
                       document |-> section.content,
                       embedding |-> section.embedding,
                       metadata |-> [title |-> file_data.title,
                                     heading |-> section.heading,
                                     platform |-> file_data.metadata.platform,
                                     difficulty |-> file_data.metadata.difficulty,
                                     topics |-> Join(",", file_data.metadata.topics),
                                     word_count |-> section.word_count,
                                     file_path |-> file_data.file_path]] >>
              ELSE << >>) \o FilePoints(file_data, i + 1)

RECURSIVE CorpusPoints(_)
\* the outer loop over processed_content
CorpusPoints(processed_content) ==
    IF processed_content = << >> THEN << >>
    ELSE FilePoints(Head(processed_content), 0) \o CorpusPoints(Tail(processed_content))

BatchSize == 100

RECURSIVE AddBatches(_, _, _)
\* the batch loop from offset i: an exception of collection.add ends the load
\* and leaves the earlier batches in the collection
AddBatches(coll, points, i) ==
    IF i > Len(points) THEN [exc |-> "none", coll |-> coll]
    ELSE LET batch_end == Min(i + BatchSize - 1, Len(points))
             added == ChromaAdd(coll, SubSeq(points, i, batch_end))
         IN  IF added.exc # "none" THEN added
             ELSE AddBatches(added.coll, points, i + BatchSize)

\* load_processed_content on a content file that exists
LoadProcessedContent(coll, processed_content) ==
    AddBatches(coll, CorpusPoints(processed_content), 1)

(***************************************************************************)
(* The retriever (create_embedding + search_relevant_content).             *)
(***************************************************************************)
NResults == 5

\* search_relevant_content without its `if not query_embedding` return
SearchCollection_NoShortCircuit(outcome, coll, query_embedding, platform) ==
    LET where == IF Truthy(platform) THEN platform ELSE PyNone
        got == IF outcome = "ok"
               THEN ChromaQuery(coll, query_embedding, NResults, where)
               ELSE [exc |-> "ConnectionError", val |-> EmptyResults]
    IN  [exc |-> "none",
         val |-> IF got.exc = "none" THEN got.val ELSE EmptyResults,
         called |-> TRUE]

\* the second half of search_relevant_content: the short-circuit on an empty
\* query embedding, the where clause and collection.query inside try/except.
\* outcome is what the vector store does when it is called; called says
\* whether collection.query was called at all
SearchCollection(outcome, coll, query_embedding, platform) ==
    IF query_embedding = EmptyVec
    THEN [exc |-> "none", val |-> EmptyResults, called |-> FALSE]
    ELSE LET where == IF Truthy(platform) THEN platform ELSE PyNone
             got == IF outcome = "ok"
                    THEN ChromaQuery(coll, query_embedding, NResults, where)
                    ELSE [exc |-> "ConnectionError", val |-> EmptyResults]
         IN  [exc |-> "none",
              val |-> IF got.exc = "none" THEN got.val ELSE EmptyResults,
              called |-> TRUE]

(***************************************************************************)
(* The prompt composer (first half of generate_response).                  *)
(***************************************************************************)
PlatformContexts == [
    picoCTF |-> "Focus on CTF competition format, educational challenges, and step-by-step problem solving. Emphasize learning fundamentals.",
    hackthebox |-> "Emphasize penetration testing methodology, realistic attack scenarios, and professional red team techniques.",
    tryhackme |-> "Highlight guided learning paths, structured rooms, and hands-on practice with clear objectives.",
    general |-> "Provide general cybersecurity education applicable across different learning platforms and contexts."]

\* platform_contexts.get(platform, platform_contexts["general"])
GetPlatformContext(platform) ==
    IF IsStr(platform) /\ platform.v \in DOMAIN PlatformContexts
    THEN PlatformContexts[platform.v]
    ELSE PlatformContexts["general"]

\* context_sections: one entry per zip(documents[0], metadatas[0])
ContextSections(context) ==
    IF context.documents # << >> /\ context.documents[1] # << >>
    THEN [i \in 1..Min(Len(context.documents[1]), Len(context.metadatas[1])) |->
            "**" \o context.metadatas[1][i].heading \o "** (from "
                 \o context.metadatas[1][i].title \o "):\n" \o context.documents[1][i]]
    ELSE << >>

\* "\n\n".join(context_sections[:3])
ContextText(context) == Join("\n\n", FirstN(ContextSections(context), 3))

HistoryClip == 200

HistoryWindow == 3

\* the window taken from the wrong end: self.conversation_history[:3]
RecentHistory_Oldest(history) == FirstN(history, HistoryWindow)

\* self.conversation_history[-3:]
RecentHistory(history) == LastN(history, HistoryWindow)

\* f"User: {h['user']}\nAssistant: {h['bot'][:200]}..."
RenderTurn(h) == "User: " \o h.user \o "\nAssistant: " \o Clip(h.bot.v, HistoryClip) \o "..."

\* history_context; h['bot'][:200] raises TypeError when a recorded bot is None
HistoryContext(history) ==
    IF history = << >> THEN [exc |-> "none", val |-> ""]
    ELSE LET recent_history == RecentHistory(history)
         IN  IF \E i \in 1..Len(recent_history) : ~IsStr(recent_history[i].bot)
             THEN [exc |-> "TypeError", val |-> ""]
             ELSE [exc |-> "none",
                   val |-> Join("\n", [i \in 1..Len(recent_history) |-> RenderTurn(recent_history[i])])]

(***************************************************************************)
(* The generator (the try/except at the end of generate_response).         *)
(***************************************************************************)
Apology == "I'm having trouble generating a response right now. Please try again in a moment."

\* what the generation backend does: it raises (or returns no choices, which
\* raises IndexError inside the try), it returns a message whose content is
\* a text, or it returns a message whose content is None
GenFail == [kind |-> "fail", text |-> ""]

GenNone == [kind |-> "none", text |-> ""]

GenText(t) == [kind |-> "text", text |-> t]

\* chat.completions.create(...) then response.choices[0].message.content
GenerateCompletion(outcome) ==
    CASE outcome.kind = "text" -> [exc |-> "none", val |-> PyStr(outcome.text)]
      [] outcome.kind = "none" -> [exc |-> "none", val |-> PyNone]
      [] OTHER -> [exc |-> "none", val |-> PyStr(Apology)]

(***************************************************************************)
(* The real-world-context annotator.  The leading light-bulb glyph of the  *)
(* source sentences is written (i).                                        *)
(***************************************************************************)
RealWorldExamples == <<
    [keyword |-> "sql", example |-> "(i) **Real-world impact**: SQL injection was used in major breaches like Equifax (2017) and continues to be a top web vulnerability."],
    [keyword |-> "xss", example |-> "(i) **Real-world impact**: Cross-site scripting affects 64% of web applications and was used in attacks against Twitter and Facebook."],
    [keyword |-> "buffer", example |-> "(i) **Real-world impact**: Buffer overflows were behind major vulnerabilities like Heartbleed and many Windows security patches."],
    [keyword |-> "crypto", example |-> "(i) **Real-world impact**: Weak cryptography led to breaches at Adobe (2013) and continues to expose sensitive data."],
    [keyword |-> "steganography", example |-> "(i) **Real-world impact**: Steganography has been used by cybercriminals to hide malware and by nation-state actors for covert communication."],
    [keyword |-> "network", example |-> "(i) **Real-world impact**: Network attacks like man-in-the-middle were used in major corporate espionage cases."] >>

RECURSIVE ScanExamples_Reverse(_, _)
\* the same loop over the table in reverse order
ScanExamples_Reverse(topic_lower, i) ==
    IF i > Len(RealWorldExamples) THEN PyNone
    ELSE IF Contains(topic_lower, RealWorldExamples[Len(RealWorldExamples) + 1 - i].keyword)
    THEN PyStr(RealWorldExamples[Len(RealWorldExamples) + 1 - i].example)
    ELSE ScanExamples_Reverse(topic_lower, i + 1)

RECURSIVE ScanExamples(_, _)
\* the for loop over real_world_examples.items(), from table entry i
ScanExamples(topic_lower, i) ==
    IF i > Len(RealWorldExamples) THEN PyNone
    ELSE IF Contains(topic_lower, RealWorldExamples[i].keyword)
    THEN PyStr(RealWorldExamples[i].example)
    ELSE ScanExamples(topic_lower, i + 1)

AddRealWorldContext(topic) == ScanExamples(Lower(topic), 1)

\* chat, lines 217-219: response += f"\n\n{real_world_context}" raises
\* TypeError when the generated response is None
AnnotateResponse(response, user_message) ==
    LET real_world_context == AddRealWorldContext(user_message)
    IN  IF ~Truthy(real_world_context) THEN [exc |-> "none", val |-> response]
        ELSE IF ~IsStr(response) THEN [exc |-> "TypeError", val |-> response]
        ELSE [exc |-> "none", val |-> PyStr(response.v \o "\n\n" \o real_world_context.v)]

\* len(relevant_content["documents"][0]) if relevant_content["documents"] else 0
SourcesUsed(relevant_content) ==
    IF relevant_content.documents # << >> THEN Len(relevant_content.documents[1]) ELSE 0

\* conversation_entry (the wall-clock timestamp is left out)
ConversationEntry(user_message, response, platform, relevant_content) ==
    [user |-> user_message, bot |-> response, platform |-> platform,
     sources_used |-> SourcesUsed(relevant_content)]

\* the entry replaces the list instead of being appended to it
StoreTurn_Overwrite(history, entry) == << entry >>

\* self.conversation_history.append(conversation_entry)
StoreTurn(history, entry) == Append(history, entry)

(***************************************************************************)
(* State.                                                                  *)
(***************************************************************************)
VARIABLES
    conversation_history,   \* CybersecurityChatbot.conversation_history
    collection,             \* the persistent Chroma collection "cybersec_content"
    req,                    \* per request slot: the handler's position and locals
    loop,                   \* the request whose handler holds the event loop, 0 if none
    cleared,                \* history variable: -1, or the number of turns the last clear
                            \* removed while no turn has been recorded since
    content_file,           \* ctf_primer_processed.json: << >> if absent, else <<processed_content>>
    chatbot_instance,       \* the module-level singleton: "None" or "created"
    load_log,               \* history variable: one record per load_processed_content call
    annotator,              \* one add_real_world_context call: its argument and return value
    processor               \* one split_into_sections call: its argument and return value

vars == <<conversation_history, collection, req, loop, cleared,
          content_file, chatbot_instance, load_log, annotator, processor>>

Req == 1..NumReq

\* no call of the function is under way
NoCall == [pc |-> "idle"]

(***************************************************************************)
(* Inputs.                                                                 *)
(***************************************************************************)
SqlQuestion == "What is SQL injection?"

\* POST /chat bodies: an empty and a whitespace-only message, a question
\* with an annotator keyword and one without
ChatBodies == {[message |-> "", platform |-> PyNone],
               [message |-> " \n ", platform |-> PyStr("picoCTF")],
               [message |-> SqlQuestion, platform |-> PyStr("picoCTF")],
               [message |-> "hi", platform |-> PyNone]}

ShortAnswer == "SQL injection lets an attacker change a database query."

GenOutcomes == {GenFail, GenNone, GenText(ShortAnswer)}

\* the parsed file of the end-to-end scenario: title Intro, one section
IntroText == "# Intro\n== Basics\nSQL injection basics\n"

IntroDoc == [title |-> "Intro",
             file_path |-> "./content/raw/ctf-primer/intro.adoc",
             sections |-> << Section("Basics", "SQL injection basics") >>,
             metadata |-> ExtractMetadata(IntroText)]

\* process_ctf_primer_directory over that one file, the embedder working
IntroCorpus == << EmbedSections(IntroDoc, << "ok" >>) >>

(***************************************************************************)
(* HTTP handlers (main.py) over the chat orchestrator (chatbot.chat).      *)
(***************************************************************************)
NoCalls == [embed |-> 0, search |-> 0, generate |-> 0]

NoOutcomes == [embed |-> "n/a", search |-> "n/a", generate |-> "n/a"]

EmptyPrompt == [context_text |-> "", platform_context |-> "", history_context |-> ""]

IdleReq == [kind |-> "none", pc |-> "idle", message |-> "", platform |-> PyNone,
            query_embedding |-> EmptyVec, relevant_content |-> EmptyResults,
            prompt |-> EmptyPrompt, response |-> PyNone, recorded |-> << >>,
            result |-> << >>, listing |-> << >>, status |-> 0, exc |-> "none",
            outcomes |-> NoOutcomes, calls |-> NoCalls,
            history_before |-> << >>, after_clear |-> -1]

\* the check without .strip()
RejectsMessage_NoStrip(message) == message = ""

\* not request.message or not request.message.strip()
RejectsMessage(message) == message = "" \/ StripsToEmpty(message)

\* every handler body runs inside try/except Exception, which answers any
\* exception, the HTTPException(400) of the empty-message check included,
\* with HTTPException(500); site is "none" when the body returned
StatusFor(site) == IF site = "none" THEN 200 ELSE 500

\* handlers declared `def` run in the thread pool: one starts whenever it likes
EventLoopFree_Threadpool == TRUE

\* the handlers are `async def` and never await, so a handler that starts
\* keeps the event loop until it has returned
EventLoopFree == loop = 0

\* no handler and no chatbot method takes a lock around conversation_history
HoldsStateLock(r) == FALSE

\* the handler of r returns or raises: the response status is decided
Finish(r, site, fields) ==
    req' = [req EXCEPT ![r] = [fields EXCEPT !.pc = "done", !.exc = site,
                                             !.status = StatusFor(site)]]

\* an HTTP request for one of the three routes arrives in a free slot
Receive(r) ==
    /\ req[r].pc = "idle"
    /\ \E kind \in {"chat", "history", "clear"} :
        req' = [req EXCEPT ![r] = [IdleReq EXCEPT !.kind = kind, !.pc = "received"]]
    /\ UNCHANGED <<conversation_history, loop, cleared, collection>>
    /\ UNCHANGED <<content_file, chatbot_instance, load_log, annotator, processor>>

\* the event loop starts the handler of a received request with its parsed body
Dispatch(r) ==
    /\ req[r].pc = "received"
    /\ EventLoopFree
    /\ loop' = r
    /\ \/ /\ req[r].kind = "chat"
          /\ Len(conversation_history) < MaxHistory
          /\ \E body \in ChatBodies :
                req' = [req EXCEPT ![r].pc = "validating",
                                   ![r].message = body.message,
                                   ![r].platform = body.platform,
                                   ![r].history_before = conversation_history]
       \/ /\ req[r].kind = "history"
          /\ req' = [req EXCEPT ![r].pc = "reading"]
       \/ /\ req[r].kind = "clear"
          /\ req' = [req EXCEPT ![r].pc = "clearing"]
    /\ UNCHANGED <<conversation_history, cleared, collection>>
    /\ UNCHANGED <<content_file, chatbot_instance, load_log, annotator, processor>>

\* chat_endpoint, lines 82-85: the empty-message check
ChatEndpoint(r) ==
    /\ req[r].pc = "validating"
    /\ IF RejectsMessage(req[r].message)
       THEN Finish(r, "HTTPException400", req[r])
       ELSE req' = [req EXCEPT ![r].pc = "retrieving"]
    /\ UNCHANGED <<conversation_history, loop, cleared, collection>>
    /\ UNCHANGED <<content_file, chatbot_instance, load_log, annotator, processor>>

\* search_relevant_content, line 87: the query embedding
Embed(r) ==
    /\ req[r].pc = "retrieving"
    /\ \E outcome \in BackendOutcomes :
        LET q == CreateEmbedding(outcome, req[r].message)
            called == [req[r] EXCEPT !.calls.embed = 1, !.outcomes.embed = outcome]
        IN  IF q.exc # "none" THEN Finish(r, "embedder", called)
            ELSE req' = [req EXCEPT ![r] = [called EXCEPT !.query_embedding = q.val,
                                                          !.pc = "searching"]]
    /\ UNCHANGED <<conversation_history, loop, cleared, collection>>
    /\ UNCHANGED <<content_file, chatbot_instance, load_log, annotator, processor>>

\* search_relevant_content, lines 89-106
Search(r) ==
    /\ req[r].pc = "searching"
    /\ \E outcome \in BackendOutcomes :
        LET s == SearchCollection(outcome, collection, req[r].query_embedding, req[r].platform)
            called == IF s.called
                      THEN [req[r] EXCEPT !.calls.search = 1, !.outcomes.search = outcome]
                      ELSE req[r]
        IN  IF s.exc # "none" THEN Finish(r, "retriever", called)
            ELSE req' = [req EXCEPT ![r] = [called EXCEPT !.relevant_content = s.val,
                                                          !.pc = "composing"]]
    /\ UNCHANGED <<conversation_history, loop, cleared, collection>>
    /\ UNCHANGED <<content_file, chatbot_instance, load_log, annotator, processor>>

\* generate_response, lines 121-170: the system prompt's three blocks
Compose(r) ==
    /\ req[r].pc = "composing"
    /\ LET h == HistoryContext(conversation_history)
       IN  IF h.exc # "none" THEN Finish(r, "composer", req[r])
           ELSE req' = [req EXCEPT ![r].prompt =
                           [context_text |-> ContextText(req[r].relevant_content),
                            platform_context |-> GetPlatformContext(req[r].platform),
                            history_context |-> h.val],
                        ![r].pc = "generating"]
    /\ UNCHANGED <<conversation_history, loop, cleared, collection>>
    /\ UNCHANGED <<content_file, chatbot_instance, load_log, annotator, processor>>

\* generate_response, lines 172-187
Generate(r) ==
    /\ req[r].pc = "generating"
    /\ \E outcome \in GenOutcomes :
        LET g == GenerateCompletion(outcome)
            called == [req[r] EXCEPT !.calls.generate = 1, !.outcomes.generate = outcome.kind]
        IN  IF g.exc # "none" THEN Finish(r, "generator", called)
            ELSE req' = [req EXCEPT ![r] = [called EXCEPT !.response = g.val,
                                                          !.pc = "annotating"]]
    /\ UNCHANGED <<conversation_history, loop, cleared, collection>>
    /\ UNCHANGED <<content_file, chatbot_instance, load_log, annotator, processor>>

\* chat, lines 216-219
Annotate(r) ==
    /\ req[r].pc = "annotating"
    /\ LET a == AnnotateResponse(req[r].response, req[r].message)
       IN  IF a.exc # "none" THEN Finish(r, "annotator", req[r])
           ELSE req' = [req EXCEPT ![r].response = a.val, ![r].pc = "recording"]
    /\ UNCHANGED <<conversation_history, loop, cleared, collection>>
    /\ UNCHANGED <<content_file, chatbot_instance, load_log, annotator, processor>>

\* chat, lines 221-236: the turn is appended and the result dict is built
Record(r) ==
    /\ req[r].pc = "recording"
    /\ LET entry == ConversationEntry(req[r].message, req[r].response, req[r].platform,
                                      req[r].relevant_content)
       IN  /\ conversation_history' = StoreTurn(conversation_history, entry)
           /\ req' = [req EXCEPT ![r].recorded = Append(req[r].recorded, entry),
                                 ![r].result = << [response |-> entry.bot,
                                                   sources_used |-> entry.sources_used] >>,
                                 ![r].pc = "responding"]
    /\ cleared' = -1
    /\ UNCHANGED <<loop, collection>>
    /\ UNCHANGED <<content_file, chatbot_instance, load_log, annotator, processor>>

\* chat_endpoint, lines 86-90: ChatResponse(response: str, ...) rejects None
Respond(r) ==
    /\ req[r].pc = "responding"
    /\ Finish(r, IF IsStr(req[r].result[1].response) THEN "none" ELSE "ValidationError", req[r])
    /\ UNCHANGED <<conversation_history, loop, cleared, collection>>
    /\ UNCHANGED <<content_file, chatbot_instance, load_log, annotator, processor>>

\* get_history: the list itself is read; ConversationEntry(bot: str, ...)
\* rejects an entry whose bot is None
GetHistory(r) ==
    /\ req[r].pc = "reading"
    /\ LET history == conversation_history
           valid == \A i \in 1..Len(history) : IsStr(history[i].bot)
       IN  Finish(r, IF valid THEN "none" ELSE "ValidationError",
                  [req[r] EXCEPT !.listing = IF valid THEN history ELSE << >>,
                                 !.after_clear = cleared])
    /\ UNCHANGED <<conversation_history, loop, cleared, collection>>
    /\ UNCHANGED <<content_file, chatbot_instance, load_log, annotator, processor>>

\* a clear that rebinds nothing
ClearedHistory_Keep(history) == history

\* clear_conversation_history: self.conversation_history = []
ClearedHistory(history) == << >>

\* clear_history
ClearHistory(r) ==
    /\ req[r].pc = "clearing"
    /\ conversation_history' = ClearedHistory(conversation_history)
    /\ cleared' = Len(conversation_history)
    /\ Finish(r, "none", req[r])
    /\ UNCHANGED <<loop, collection>>
    /\ UNCHANGED <<content_file, chatbot_instance, load_log, annotator, processor>>

\* the handler's coroutine is over: the response leaves, the slot and the
\* event loop are free again
Reply(r) ==
    /\ req[r].pc = "done"
    /\ req' = [req EXCEPT ![r] = IdleReq]
    /\ loop' = IF loop = r THEN 0 ELSE loop
    /\ UNCHANGED <<conversation_history, cleared, collection>>
    /\ UNCHANGED <<content_file, chatbot_instance, load_log, annotator, processor>>

\* the state once get_chatbot() has built the singleton on a fresh index
\* directory and loaded the ingested corpus
Init ==
    /\ collection = LoadProcessedContent(EmptyCollection, IntroCorpus).coll
    /\ conversation_history = << >>
    /\ req = [r \in Req |-> IdleReq]
    /\ loop = 0
    /\ cleared = -1
    /\ content_file = << IntroCorpus >>
    /\ chatbot_instance = "created"
    /\ load_log = << >>
    /\ annotator = NoCall
    /\ processor = NoCall

Next ==
    \E r \in Req :
        \/ Receive(r)
        \/ Dispatch(r)
        \/ ChatEndpoint(r)
        \/ Embed(r)
        \/ Search(r)
        \/ Compose(r)
        \/ Generate(r)
        \/ Annotate(r)
        \/ Record(r)
        \/ Respond(r)
        \/ GetHistory(r)
        \/ ClearHistory(r)
        \/ Reply(r)

Spec == Init /\ [][Next]_vars

(***************************************************************************)
(* Properties of the serving specification Spec.                           *)
(***************************************************************************)
\* a message that is empty or has only whitespace in it
BlankMessage(message) ==
    \A i \in 1..Len(message) : SubSeq(message, i, i) \in {" ", "\t", "\n", "\r"}

ChatDone(r) == req[r].kind = "chat" /\ req[r].pc = "done"

\* r's handler has started and its coroutine is not over
InHandler(r) == req[r].pc \notin {"idle", "received"}

\* r is at a statement that reads, appends to or rebinds conversation_history
AccessesHistory(r) == req[r].pc \in {"composing", "recording", "reading", "clearing"}

BackendSites == {"embedder", "retriever", "generator"}

\* C1: a POST /chat whose message is empty or whitespace-only is answered
\* with status 400, not with a server error and not with a chat response.
C1_EmptyMessageIs400 ==
    \A r \in Req :
        (ChatDone(r) /\ BlankMessage(req[r].message)) => req[r].status = 400

\* C2: every chat call with a non-empty message, whatever the backends do,
\* returns a response and appends exactly one turn whose bot text is the
\* returned response text.
C2_ChatAlwaysRecords ==
    \A r \in Req :
        (ChatDone(r) /\ ~BlankMessage(req[r].message)) =>
            /\ Len(req[r].recorded) = 1
            /\ Len(req[r].result) = 1
            /\ conversation_history = Append(req[r].history_before, req[r].recorded[1])
            /\ req[r].recorded[1].bot = req[r].result[1].response

SqlExample == RealWorldExamples[1].example

\* C4: with the ingested Intro document loaded and every backend working, the
\* first chat on the SQL question with platform picoCTF answers 200 with
\* sources_used = 1 and a non-empty response that ends in the SQL sentence.
C4_EndToEndUsesSource ==
    \A r \in Req :
        ( /\ ChatDone(r)
          /\ req[r].message = SqlQuestion
          /\ req[r].platform = PyStr("picoCTF")
          /\ req[r].history_before = << >>
          /\ req[r].outcomes = [embed |-> "ok", search |-> "ok", generate |-> "text"] ) =>
            /\ req[r].status = 200
            /\ req[r].result[1].sources_used = 1
            /\ req[r].result[1].response.v # ""
            /\ EndsWith(req[r].result[1].response.v, "\n\n" \o SqlExample)

\* the turn r is serving met no None content: none generated in it and none
\* recorded in the history it started from
NoMissingContent(r) ==
    /\ req[r].outcomes.generate # "none"
    /\ \A i \in 1..Len(req[r].history_before) : IsStr(req[r].history_before[i].bot)

\* C5: during a chat turn a failing embedding backend yields the empty
\* vector, a failing vector search the empty result and a failing generation
\* the apology; no exception leaves one of the three components, so a 5xx of
\* the chat flow never stems from a backend failure and a turn whose only
\* trouble is failing backends is answered 200.
C5_BackendFailuresDegrade ==
    \A r \in Req :
        req[r].kind = "chat" =>
            /\ req[r].exc \notin BackendSites
            /\ req[r].outcomes.embed = "fail" => req[r].query_embedding = EmptyVec
            /\ req[r].outcomes.search = "fail" => req[r].relevant_content = EmptyResults
            /\ req[r].outcomes.generate = "fail" =>
                    /\ IsStr(req[r].response)
                    /\ Clip(req[r].response.v, Len(Apology)) = Apology
            /\ ( /\ req[r].pc = "done"
                 /\ "fail" \in {req[r].outcomes.embed, req[r].outcomes.search,
                                req[r].outcomes.generate}
                 /\ NoMissingContent(r) ) => req[r].status = 200

C5_Witness ==
    \E r \in Req :
        /\ ChatDone(r)
        /\ req[r].outcomes = [embed |-> "ok", search |-> "fail", generate |-> "fail"]
        /\ req[r].status = 200
        /\ req[r].result[1].response = PyStr(Apology \o "\n\n" \o SqlExample)
        /\ req[r].result[1].sources_used = 0

\* C6 as stated: every append to, read of and clear of the conversation
\* state executes under one mutual-exclusion lock.
C6_UnderOneLock == \A r \in Req : AccessesHistory(r) => HoldsStateLock(r)

\* C6 as amended: no lock is taken; a handler that has started holds the
\* single event loop until it is over, so no two requests are inside their
\* handlers, and so at conversation_history, at the same time.
C6_HandlersSerialised ==
    \A r1, r2 \in Req :
        /\ InHandler(r1) => loop = r1
        /\ (r1 # r2 /\ InHandler(r1)) => ~InHandler(r2)

C6_Witness ==
    \E r1, r2 \in Req :
        /\ r1 # r2
        /\ req[r1].kind = "chat" /\ req[r1].pc = "recording"
        /\ req[r2].kind = "clear" /\ req[r2].pc = "received"
        /\ conversation_history # << >>

\* C7: an empty or whitespace-only POST /chat is rejected before any
\* embedding, vector-search or generation call, and leaves the history as
\* it was.
C7_EmptyRejectedBeforeBackends ==
    \A r \in Req :
        (req[r].kind = "chat" /\ InHandler(r) /\ BlankMessage(req[r].message)) =>
            /\ req[r].pc \in {"validating", "done"}
            /\ req[r].calls = NoCalls
            /\ req[r].recorded = << >>
            /\ conversation_history = req[r].history_before

C7_Witness ==
    \E r \in Req :
        /\ ChatDone(r)
        /\ req[r].message = " \n "
        /\ req[r].calls = NoCalls
        /\ Len(conversation_history) = 1

IsPrefix(s, t) == Len(s) <= Len(t) /\ SubSeq(t, 1, Len(s)) = s

\* C8: a step changes the recorded turns only by appending one turn at the
\* end (a chat at its recording statement) or by removing all of them (a
\* clear); every other step, a history read included, leaves them as they are.
C8_AppendOnly ==
    [][ \/ conversation_history' = conversation_history
        \/ \E r \in Req :
            /\ req[r].kind = "chat" /\ req[r].pc = "recording"
            /\ Len(conversation_history') = Len(conversation_history) + 1
            /\ IsPrefix(conversation_history, conversation_history')
        \/ \E r \in Req :
            /\ req[r].kind = "clear" /\ req[r].pc = "clearing"
            /\ conversation_history' = << >> ]_vars

C8_Witness ==
    \E r \in Req :
        /\ req[r].kind = "chat" /\ req[r].pc = "responding"
        /\ Len(req[r].history_before) = 1
        /\ conversation_history = Append(req[r].history_before, req[r].recorded[1])

\* C9: a history read made after a clear, with no turn recorded since,
\* answers 200 with the empty sequence, however many turns the clear removed.
C9_EmptyAfterClear ==
    /\ cleared >= 0 => conversation_history = << >>
    /\ \A r \in Req :
        (req[r].kind = "history" /\ req[r].pc = "done" /\ req[r].after_clear >= 0) =>
            (req[r].status = 200 /\ req[r].listing = << >>)

C9_Witness ==
    \E r \in Req :
        /\ req[r].kind = "history" /\ req[r].pc = "done"
        /\ req[r].after_clear = MaxHistory
        /\ req[r].listing = << >>

\* the chat of r has gone through the retriever's search step
Searched(r) ==
    req[r].kind = "chat"
    /\ req[r].pc \in {"composing", "generating", "annotating", "recording", "responding", "done"}
    /\ req[r].calls.embed = 1

\* C11: when the embedder degrades to the empty embedding for the query, the
\* retriever returns the empty result without calling the vector index's
\* search, and the turn that is recorded and returned reports sources_used 0.
C11_EmptyEmbeddingSkipsSearch ==
    \A r \in Req :
        (Searched(r) /\ req[r].query_embedding = EmptyVec) =>
            /\ req[r].calls.search = 0
            /\ req[r].relevant_content = EmptyResults
            /\ \A i \in 1..Len(req[r].recorded) : req[r].recorded[i].sources_used = 0
            /\ \A i \in 1..Len(req[r].result) : req[r].result[i].sources_used = 0

C11_Witness ==
    \E r \in Req :
        /\ ChatDone(r) /\ req[r].status = 200
        /\ req[r].outcomes.embed = "fail" /\ req[r].query_embedding = EmptyVec
        /\ req[r].calls.search = 0
        /\ Len(req[r].result) = 1 /\ req[r].result[1].sources_used = 0
        /\ Len(conversation_history) > 0
        /\ conversation_history[Len(conversation_history)].sources_used = 0

(***************************************************************************)
(* The prompt composer on recorded histories of up to MaxTurns turns       *)
(* (SpecCompose): a chat stands at its composing statement.                *)
(***************************************************************************)
LongAnswer == Repeat("0123456789", 25)

ExactAnswer == Repeat("abcdefghij", 20)

\* turns chat can have recorded: a message without keyword and what the
\* generator returned for it
TextTurns == {
    [user |-> "q1", bot |-> PyStr(ShortAnswer), platform |-> PyNone, sources_used |-> 0],
    [user |-> "q2", bot |-> PyStr(LongAnswer), platform |-> PyNone, sources_used |-> 0],
    [user |-> "q3", bot |-> PyStr(Apology), platform |-> PyStr("picoCTF"), sources_used |-> 0],
    [user |-> "q4", bot |-> PyStr(ExactAnswer), platform |-> PyNone, sources_used |-> 0]}

\* the turn recorded when the generated content was None
NoneTurn == [user |-> "hi", bot |-> PyNone, platform |-> PyNone, sources_used |-> 0]

TextHistories(n) == UNION {[1..k -> TextTurns] : k \in 0..n}

\* a None turn can only be the last one: no chat gets past it
ComposeHistories ==
    TextHistories(MaxTurns) \cup {Append(h, NoneTurn) : h \in TextHistories(MaxTurns - 1)}

\* the locals of a chat on "hi" that has embedded and searched
ComposingReq(history) ==
    LET q == CreateEmbedding("ok", "hi").val
        s == SearchCollection("ok", collection, q, PyNone)
    IN  [IdleReq EXCEPT !.kind = "chat", !.pc = "composing", !.message = "hi",
                        !.query_embedding = q, !.relevant_content = s.val,
                        !.outcomes = [embed |-> "ok", search |-> "ok", generate |-> "n/a"],
                        !.calls = [embed |-> 1, search |-> 1, generate |-> 0],
                        !.history_before = history]

ComposeInit ==
    /\ collection = LoadProcessedContent(EmptyCollection, IntroCorpus).coll
    /\ conversation_history \in ComposeHistories
    /\ req = [r \in Req |-> IF r = 1 THEN ComposingReq(conversation_history) ELSE IdleReq]
    /\ loop = 1
    /\ cleared = -1
    /\ content_file = << IntroCorpus >>
    /\ chatbot_instance = "created"
    /\ load_log = << >>
    /\ annotator = NoCall
    /\ processor = NoCall

ComposeNext == \E r \in Req : Compose(r)

SpecCompose == ComposeInit /\ [][ComposeNext]_vars

\* the bot text cut to at most its first 200 characters
ExpectedClip(bot) == IF Len(bot) <= 200 THEN bot ELSE SubSeq(bot, 1, 200)

ExpectedTurnText(h) ==
    "User: " \o h.user \o "\nAssistant: " \o ExpectedClip(h.bot.v) \o "..."

\* the last min(n, 3) turns, oldest first, one per line
ExpectedBlock(history) ==
    LET n == Len(history)
        k == Min(n, 3)
    IN  Join("\n", [i \in 1..k |-> ExpectedTurnText(history[n - k + i])])

\* C10: the history block of a composed prompt holds exactly the last
\* min(n, 3) of the n recorded turns, oldest first, each with its user text
\* and its bot text cut to at most 200 characters plus "..."; with 5 turns
\* these are turns 3, 4 and 5.
C10_HistoryBlock ==
    \A r \in Req :
        (req[r].kind = "chat" /\ req[r].pc = "generating") =>
            /\ req[r].prompt.history_context = ExpectedBlock(conversation_history)
            /\ Len(conversation_history) = 5 =>
                req[r].prompt.history_context =
                    Join("\n", << ExpectedTurnText(conversation_history[3]),
                                  ExpectedTurnText(conversation_history[4]),
                                  ExpectedTurnText(conversation_history[5]) >>)

C10_Witness ==
    \E r \in Req :
        /\ req[r].kind = "chat" /\ req[r].pc = "generating"
        /\ Len(conversation_history) = 5
        /\ conversation_history[1].user = "q1"
        /\ conversation_history[2].user = "q3"
        /\ conversation_history[3].user = "q4"
        /\ conversation_history[4].user = "q2"
        /\ conversation_history[5].user = "q1"
        /\ req[r].prompt.history_context =
                "User: q4\nAssistant: " \o ExactAnswer \o "...\n"
                    \o "User: q2\nAssistant: " \o Repeat("0123456789", 20) \o "...\n"
                    \o "User: q1\nAssistant: " \o ShortAnswer \o "..."

(***************************************************************************)
(* Ingestion, start-up and loading over the persistent index (SpecLoad).   *)
(***************************************************************************)
\* the Intro file after an edit of its section body
IntroDocRevised ==
    [IntroDoc EXCEPT !.sections = << Section("Basics", "SQL injection basics, revised") >>]

XssText == "# XSS Notes\n== Reflected\nReflected xss echoes input\n== Stored\nStored xss persists\n"

XssDoc == [title |-> "XSS Notes",
           file_path |-> "./content/raw/ctf-primer/web/xss.adoc",
           sections |-> << Section("Reflected", "Reflected xss echoes input"),
                           Section("Stored", "Stored xss persists") >>,
           metadata |-> ExtractMetadata(XssText)]

\* two AsciiDoc files of the same name in two directories of the primer:
\* their title lines start with '=', not with '#'
WebNotesText == "= Web\n== Cookies\ncookie basics\n"

CryptoNotesText == "= Crypto\n== Hashes\nhash basics\n"

WebNotesDoc == ProcessMarkdownFile("./content/raw/ctf-primer/web/notes.adoc", WebNotesText)

CryptoNotesDoc == ProcessMarkdownFile("./content/raw/ctf-primer/crypto/notes.adoc", CryptoNotesText)

\* what the raw content directory can hold when it is processed
RawCorpora == { << IntroDoc >>, << IntroDocRevised >>, << IntroDoc, XssDoc >>,
                << WebNotesDoc, CryptoNotesDoc >> }

\* process_ctf_primer_directory: outcomes[i] is the embedding backend's
\* outcome for the i-th section of a file
ProcessCtfPrimerDirectory(raw, outcomes) ==
    [f \in 1..Len(raw) |-> EmbedSections(raw[f], outcomes)]

\* POST /admin/process-content (or the script): the raw directory is
\* processed and the result saved over ctf_primer_processed.json
ProcessContent ==
    /\ \E raw \in RawCorpora, outcomes \in [1..2 -> BackendOutcomes] :
        content_file' = << ProcessCtfPrimerDirectory(raw, outcomes) >>
    /\ UNCHANGED <<conversation_history, collection, req, loop, cleared,
                   chatbot_instance, load_log, annotator, processor>>

\* one load_processed_content call on the collection, logged
LoadAndLog ==
    IF content_file = << >>
    THEN UNCHANGED <<collection, load_log>>
    ELSE LET loaded == LoadProcessedContent(collection, content_file[1])
         IN  /\ collection' = loaded.coll
             /\ load_log' = Append(load_log, [corpus |-> content_file[1],
                                              exc |-> loaded.exc,
                                              after |-> loaded.coll])

\* get_chatbot() in a process that has no instance yet: the collection is
\* fetched or created, the history starts empty, the content file is loaded
GetChatbot ==
    /\ chatbot_instance = "None"
    /\ Len(load_log) < MaxLoads
    /\ chatbot_instance' = "created"
    /\ conversation_history' = << >>
    /\ LoadAndLog
    /\ UNCHANGED <<req, loop, cleared, content_file, annotator, processor>>

\* a second load_processed_content call on the living instance
Reload ==
    /\ chatbot_instance = "created"
    /\ Len(load_log) < MaxLoads
    /\ LoadAndLog
    /\ UNCHANGED <<conversation_history, req, loop, cleared, content_file, chatbot_instance, annotator, processor>>

\* the process ends: the singleton and its history are gone, the files stay
Restart ==
    /\ chatbot_instance = "created"
    /\ chatbot_instance' = "None"
    /\ conversation_history' = << >>
    /\ UNCHANGED <<collection, req, loop, cleared, content_file, load_log, annotator, processor>>

LoadInit ==
    /\ collection = EmptyCollection
    /\ content_file = << >>
    /\ chatbot_instance = "None"
    /\ load_log = << >>
    /\ conversation_history = << >>
    /\ req = [r \in Req |-> IdleReq]
    /\ loop = 0
    /\ cleared = -1
    /\ annotator = NoCall
    /\ processor = NoCall

LoadNext == ProcessContent \/ GetChatbot \/ Reload \/ Restart

SpecLoad == LoadInit /\ [][LoadNext]_vars

\* the ids a corpus puts into the index, in order
CorpusIds(processed_content) ==
    [i \in 1..Len(CorpusPoints(processed_content)) |-> CorpusPoints(processed_content)[i].id]

\* C3: when a corpus with the same ids is loaded again, in the same process
\* or after a restart, the second load succeeds, the index holds the same ids
\* as after the first load, no id twice, and under each id the document,
\* vector and metadata of the latest load.
C3_ReloadOverwrites ==
    \A j \in 2..Len(load_log) :
        LET first == load_log[j - 1]
            second == load_log[j]
        IN  (first.exc = "none" /\ CorpusIds(first.corpus) = CorpusIds(second.corpus)) =>
                /\ second.exc = "none"
                /\ CollectionIds(second.after) = CollectionIds(first.after)
                /\ ~HasDuplicates([i \in 1..Len(second.after.points) |-> second.after.points[i].id])
                /\ SeqToSet(CorpusPoints(second.corpus)) \subseteq SeqToSet(second.after.points)

\* the (file, section position) pairs a corpus puts into the index, in order
RECURSIVE FilePairs(_, _)
FilePairs(file_data, i) ==
    IF i >= Len(file_data.sections) THEN << >>
    ELSE (IF file_data.sections[i + 1].embedding # EmptyVec
          THEN << [file_path |-> file_data.file_path, position |-> i] >>
          ELSE << >>) \o FilePairs(file_data, i + 1)

RECURSIVE CorpusPairs(_)
CorpusPairs(processed_content) ==
    IF processed_content = << >> THEN << >>
    ELSE FilePairs(Head(processed_content), 0) \o CorpusPairs(Tail(processed_content))

\* C14: in one load of an ingested corpus, no two indexed sections get the
\* same id: distinct (document, section position) pairs have distinct ids,
\* documents of different files titled by their filename stem included.
C14_IdsDistinctInOneLoad ==
    \A j \in 1..Len(load_log) :
        LET ids == CorpusIds(load_log[j].corpus)
            pairs == CorpusPairs(load_log[j].corpus)
        IN  \A a, b \in 1..Len(ids) : pairs[a] # pairs[b] => ids[a] # ids[b]

(***************************************************************************)
(* The annotator on its own (SpecAnnotate): add_real_world_context is      *)
(* called on texts of up to MaxWords words.                                *)
(***************************************************************************)
\* words a topic text is made of: keywords in mixed case, a keyword inside a
\* longer word, and a word without keyword
TopicWords == {"MySQL", "xss", "Buffer", "crypto", "Steganography", "network", "hello"}

\* the texts of up to n words, separated by one space
TopicTexts(n) == {Join(" ", ws) : ws \in UNION {[1..k -> TopicWords] : k \in 0..n}}

AnnotateInit ==
    /\ \E topic \in TopicTexts(MaxWords) : annotator = [pc |-> "called", topic |-> topic]
    /\ processor = NoCall
    /\ collection = EmptyCollection
    /\ content_file = << >>
    /\ chatbot_instance = "None"
    /\ load_log = << >>
    /\ conversation_history = << >>
    /\ req = [r \in Req |-> IdleReq]
    /\ loop = 0
    /\ cleared = -1

\* add_real_world_context(topic) runs and returns
AddRealWorldContextCall ==
    /\ annotator.pc = "called"
    /\ annotator' = [pc |-> "returned", topic |-> annotator.topic,
                     real_world_context |-> AddRealWorldContext(annotator.topic)]
    /\ UNCHANGED <<conversation_history, collection, req, loop, cleared,
                   content_file, chatbot_instance, load_log, processor>>

AnnotateNext == AddRealWorldContextCall

SpecAnnotate == AnnotateInit /\ [][AnnotateNext]_vars

\* the keywords in the order the specification fixes
KeywordOrder == <<"sql", "xss", "buffer", "crypto", "steganography", "network">>

\* the sentence the table maps a keyword to
ExampleFor(keyword) ==
    (CHOOSE e \in SeqToSet(RealWorldExamples) : e.keyword = keyword).example

\* the positions of KeywordOrder whose keyword occurs in the lower-cased text
Occurring(text) == {k \in 1..Len(KeywordOrder) : Contains(Lower(text), KeywordOrder[k])}

\* C12: the annotator returns the sentence of the first keyword, in the order
\* sql, xss, buffer, crypto, steganography, network, that is a substring of
\* the lower-cased text, and none when no keyword occurs; a text with both
\* "sql" and "xss" gets the sql sentence wherever the two stand.
C12_FirstKeywordWins ==
    annotator.pc = "returned" =>
        LET hits == Occurring(annotator.topic)
            first == CHOOSE k \in hits : \A j \in hits : k <= j
        IN  /\ hits = {} => annotator.real_world_context = PyNone
            /\ hits # {} => annotator.real_world_context = PyStr(ExampleFor(KeywordOrder[first]))
            /\ (Contains(Lower(annotator.topic), "sql") /\ Contains(Lower(annotator.topic), "xss"))
                   => annotator.real_world_context = PyStr(ExampleFor("sql"))

C12_Witness ==
    /\ annotator.pc = "returned"
    /\ annotator.topic = "xss MySQL"
    /\ annotator.real_world_context = PyStr(ExampleFor("sql"))

(***************************************************************************)
(* The section splitter on its own (SpecSplit): split_into_sections is     *)
(* called on texts of up to MaxLines lines.                                *)
(***************************************************************************)
\* lines a document is made of: headings of two depths, one indented and
\* with trailing blanks, a heading without text, body lines, blank lines, a
\* line of '=' without whitespace after them and a one-'=' title line
DocumentLines == {"== A", "  === B c ", "== ", "one two", "", " ", "==x", "= T"}

\* the texts of up to n lines, the lines kept beside the joined text
DocumentTexts(n) ==
    {[lines |-> ls, content |-> Join("\n", ls)] :
        ls \in UNION {[1..k -> DocumentLines] : k \in 0..n}}

SplitInit ==
    /\ \E doc \in DocumentTexts(MaxLines) :
        processor = [pc |-> "called", lines |-> doc.lines, content |-> doc.content]
    /\ annotator = NoCall
    /\ collection = EmptyCollection
    /\ content_file = << >>
    /\ chatbot_instance = "None"
    /\ load_log = << >>
    /\ conversation_history = << >>
    /\ req = [r \in Req |-> IdleReq]
    /\ loop = 0
    /\ cleared = -1

\* split_into_sections(content) runs and returns
SplitIntoSectionsCall ==
    /\ processor.pc = "called"
    /\ processor' = [pc |-> "returned", lines |-> processor.lines,
                     content |-> processor.content,
                     sections |-> SplitIntoSections(processor.content)]
    /\ UNCHANGED <<conversation_history, collection, req, loop, cleared,
                   content_file, chatbot_instance, load_log, annotator>>

SplitNext == SplitIntoSectionsCall

SpecSplit == SplitInit /\ [][SplitNext]_vars

\* a heading line: optional indentation, two or more '=', whitespace
IsHeadingLine(line) == HeadingMatch(line).matched

\* the last line of the section that starts at heading line i
SectionEnd(lines, i) ==
    LET later == {j \in (i + 1)..Len(lines) : IsHeadingLine(lines[j])}
    IN  IF later = {} THEN Len(lines)
        ELSE (CHOOSE j \in later : \A k \in later : j <= k) - 1

\* the body of the section that starts at heading line i: its lines, each
\* with its line end
BodyOf(lines, i) ==
    Join("", [k \in 1..(SectionEnd(lines, i) - i) |-> lines[i + k] \o "\n"])

RECURSIVE SectionsFrom(_, _)
\* the sections that start at heading lines i.. and have a body that is not
\* blank, in document order
SectionsFrom(lines, i) ==
    IF i > Len(lines) THEN << >>
    ELSE (IF IsHeadingLine(lines[i]) /\ Strip(BodyOf(lines, i)) # ""
          THEN << [heading |-> Strip(HeadingMatch(lines[i]).text),
                   content |-> Strip(BodyOf(lines, i)),
                   word_count |-> WordCount(BodyOf(lines, i))] >>
          ELSE << >>) \o SectionsFrom(lines, i + 1)

\* C13: for any sequence of input lines, split_into_sections returns, in
\* document order, exactly the sections that start at a heading line, end at
\* the next heading or the end of the text and have a body that is not blank,
\* each with its heading text, its stripped body and the word count of the
\* body; lines before the first heading are in no section and no section has
\* an empty body.
C13_SectionsAreHeadingChunks ==
    processor.pc = "returned" =>
        /\ processor.sections = SectionsFrom(processor.lines, 1)
        /\ \A i \in 1..Len(processor.sections) : processor.sections[i].content # ""

====
